---- MODULE Spec2Model ----
(***************************************************************************)
(* Model of src/contract_scanner.py: the request governor (track_request), *)
(* the retrying receipt client (get_receipt), the block cache              *)
(* (prefetch_block_data), the batch orchestration of process_block and the *)
(* scan loop of main with its shutdown path.                               *)
(*                                                                         *)
(* Coroutines run on one asyncio event loop: a coroutine runs without      *)
(* interruption from one await to the next, so an action below is the code *)
(* between two suspension points.  Where such a stretch of main is split   *)
(* into several actions, the other coroutines are held back until main is  *)
(* suspended again (MainSuspended).  Time is counted in ticks,             *)
(* TicksPerSecond ticks to the second.                                     *)
(***************************************************************************)
EXTENDS Integers, Sequences, FiniteSets, TLC

\* ------------------------------------------------------------------ bounds
TicksPerSecond == 2      \* resolution of the model clock
MaxTime == 6             \* the clock stops at this tick
RetryHorizon == 14       \* ... and at this one when one get_receipt call is followed
NumCallers == 3          \* coroutines calling track_request concurrently
NumFetchers == 2         \* coroutines calling prefetch_block_data concurrently
MaxHeight == 3           \* block heights are 1..MaxHeight
MaxTxs == 3              \* transactions in a block
SessionTicks == 3        \* the session timer (300 s in the source), in ticks
MainMaxTxs == 1          \* transactions in a block of a whole session
DetectHashes == 2        \* hashes of the transactions the detector is tried on
ProgressTicks == 2       \* the progress interval (60 s in the source), in ticks
ScanHeights == 4         \* block heights where several ranges of blocks are followed
MaxProgress == 2         \* progress entries after which the shifted clock stops

\* Configuration of the scanner (contract_scanner.py:55-72).  The source sets
\* BATCH_SIZE = 25, RPC_LIMIT = 50, MAX_CONCURRENT_BATCHES = 8,
\* RPC_BATCH_SIZE = 10 and CACHE_SIZE = 20; the model is checked at scaled
\* values of these five.
BATCH_SIZE == 1
RPC_LIMIT == 2
MAX_RETRIES == 3
INITIAL_BACKOFF == 1
MAX_CONCURRENT_BATCHES == 2
RPC_BATCH_SIZE == 1
REQUEST_WINDOW == 1 * TicksPerSecond
CACHE_SIZE == 2

\* The request counters of the report (contract_scanner.py:81-82).  Their only
\* assignment is in track_rpc_request, which no code calls: they keep their
\* initial value for the whole session.
experiment_rpc_requests == 0
experiment_rpc_errors == 0

\* ------------------------------------------------------------------ state
VARIABLES
    now,            \* time.time(), in ticks
    horizon,        \* the tick at which the model clock stops
    request_times,  \* the rolling window of request timestamps
    wake,           \* per task: the tick at which its asyncio.sleep ends
    admitted,       \* log: the timestamps track_request recorded in the
                    \* REQUEST_WINDOW that ends now (older ones are dropped)
    cpc,            \* per caller: where it stands around track_request
    chain,          \* the node's chain: height -> transactions of the block
    head,           \* the node's chain head (w3.eth.block_number)
    batch_size,     \* the value BATCH_SIZE is configured to
    rpc_batch_size, \* the value RPC_BATCH_SIZE is configured to
    block_cache,    \* block_number -> block
    oldest_block,   \* the key removed by the last eviction (0: none yet)
    ppc,            \* per task in prefetch_block_data: its position
    pnum,           \* per task in prefetch_block_data: block_number
    pret,           \* per task: the block prefetch_block_data returned
    block_number,   \* process_block's argument (main's loop variable)
    sem,            \* the value of process_block's semaphore
    bpc,            \* per batch task: its position
    bsub,           \* per batch: the sub-batch batch_rpc_requests gathers
    breceipts,      \* per batch: results of batch_rpc_requests so far
    bresult,        \* per batch: contract_data_list it returned
    pb_result,      \* what process_block returned (stored_contracts)
    processed,      \* log: the heights process_block has returned for
    rp,             \* per get_receipt call (by tx hash): its position
    retries,        \* per get_receipt call: retries
    backoff,        \* per get_receipt call: backoff, in seconds
    rres,           \* per get_receipt call: the value it returned
    rerr,           \* per get_receipt call: the exception it is backing off for
    attempts,       \* log, per get_receipt call: requests sent to the node
    delays,         \* log, per get_receipt call: the backoff sleeps, in seconds
    store_log,      \* log: the record lists handed to store_transactions_batch
    store_result,   \* log: how the last store_transactions_batch call ended
    mpc,            \* main's position
    shutdown_event, \* shutdown_event.is_set()
    tpc,            \* the timer task's position
    current_block,
    new_latest_block,
    experiment_start_block,
    experiment_end_block,
    total_contracts,  \* total_contracts, copied to experiment_contract_count
    start_time,     \* main's start_time: when the last progress interval began
    report,         \* the report file: the kinds of the entries written
    exit_cause,     \* what made the session exit
    rpc_unadmitted, \* log: requests sent to the node without track_request
    det_tx,         \* the transaction is_potential_contract_creation is given
    det_out         \* what it returned for det_tx: "True" or "False" ("none":
                    \* not called yet)

govVars == <<request_times, wake, admitted>>
nodeVars == <<chain, head, horizon>>
confVars == <<batch_size, rpc_batch_size>>
detVars == <<det_tx, det_out>>
cacheVars == <<block_cache, oldest_block>>
fetchVars == <<ppc, pnum, pret>>
batchVars == <<sem, bpc, bsub, breceipts, bresult>>
rcptVars == <<rp, retries, backoff, rres, rerr, attempts, delays>>
loopVars == <<current_block, new_latest_block, experiment_start_block,
              experiment_end_block, total_contracts, start_time>>
mainVars == <<mpc, shutdown_event, tpc, loopVars, report, exit_cause>>
vars == <<now, govVars, cpc, nodeVars, confVars, detVars, processed, cacheVars, fetchVars, block_number,
          batchVars, pb_result, rcptVars, store_log, store_result, mainVars, rpc_unadmitted>>

Callers == {<<"caller", i>> : i \in 1..NumCallers}
Fetchers == {<<"fetch", i>> : i \in 1..NumFetchers}
Hashes == 1..MaxTxs
Receipt(h) == <<"receipt", h>>
Main == <<"main", 0>>
Timer == <<"timer", 0>>
Tasks == Callers \cup Fetchers \cup {Receipt(h) : h \in Hashes} \cup {Main, Timer}
Heights == 1..MaxHeight
NoBlock == [number |-> 0, transactions |-> <<>>]

Max(a, b) == IF a >= b THEN a ELSE b
Min(a, b) == IF a <= b THEN a ELSE b
Seconds(s) == s * TicksPerSecond

RECURSIVE SeqMin(_)
SeqMin(s) ==
    IF Len(s) = 1 THEN s[1]
    ELSE LET m == SeqMin(Tail(s)) IN IF s[1] <= m THEN s[1] ELSE m

RECURSIVE Concat(_)
Concat(ss) == IF ss = <<>> THEN <<>> ELSE Head(ss) \o Concat(Tail(ss))

\* The process runs: after exit(0), os._exit(0) or an exception that leaves
\* asyncio.run, no coroutine takes another step and the clock is no longer read.
Alive == mpc \notin {"terminated", "crashed"}

\* main is suspended at an await: only then do other coroutines run.
MainSuspended ==
    /\ mpc \in {"none", "track_init", "track_poll", "pb_fetch", "pb_gather",
                "idle_sleep", "terminated", "crashed"}
    /\ ppc[Main] \notin {"returned", "raised"}

\* ------------------------------------------------------- request governor
PruneNothing(rt, current_time) == rt

\* request_times = [t for t in request_times if current_time - t < REQUEST_WINDOW]
Prune(rt, current_time) ==
    SelectSeq(rt, LAMBDA t : current_time - t < REQUEST_WINDOW)

AtLimitOffByOne(rt) == Len(rt) > RPC_LIMIT

\* while len(request_times) >= RPC_LIMIT
AtLimit(rt) == Len(rt) >= RPC_LIMIT

\* wait_time = REQUEST_WINDOW - (current_time - oldest_request)
WaitTime(rt, current_time) == REQUEST_WINDOW - (current_time - SeqMin(rt))

\* One pass of track_request from reading the clock to its next suspension
\* (the sleep) or to its return.  TR_Blocked tells which of the two it is.
TR_Blocked == AtLimit(Prune(request_times, now))

TR_Sleep(t) ==
    LET pruned == Prune(request_times, now) IN
    /\ request_times' = pruned
    /\ wake' = [wake EXCEPT ![t] = now + Max(WaitTime(pruned, now), 0)]
    /\ UNCHANGED admitted

TR_Admit(t) ==
    /\ request_times' = Append(Prune(request_times, now), now)
    /\ admitted' = Append(admitted, now)
    /\ wake' = [wake EXCEPT ![t] = 0]

\* The clock advances; nothing of the program changes.  The log forgets the
\* admissions that have left the trailing window.
Tick ==
    /\ Alive
    /\ now < horizon
    /\ now' = now + 1
    /\ admitted' = SelectSeq(admitted, LAMBDA t : now' - t < REQUEST_WINDOW)
    /\ UNCHANGED <<request_times, wake, cpc, nodeVars, confVars, detVars, processed, cacheVars, fetchVars,
                   block_number, batchVars, pb_result, rcptVars, store_log, store_result,
                   mainVars, rpc_unadmitted>>

\* The clock advances, seen from now: every recorded time moves one tick into
\* the past and now keeps its value.  A time that every test of the program
\* already takes for elapsed stays where it is: a request time outside the
\* window, a start_time older than the progress interval, a wake time that
\* has come.  This clock runs where Tick has stopped, for as long as the
\* report file holds fewer than MaxProgress entries.
ShiftPast(t, age) == Max(t - 1, now - age)

ClockShift ==
    /\ Alive
    /\ now = horizon
    /\ Len(report) < MaxProgress
    /\ request_times' =
          [i \in 1..Len(request_times) |-> ShiftPast(request_times[i], REQUEST_WINDOW)]
    /\ admitted' = SelectSeq([i \in 1..Len(admitted) |-> admitted[i] - 1],
                             LAMBDA t : now - t < REQUEST_WINDOW)
    /\ wake' = [t \in Tasks |-> Max(wake[t] - 1, 0)]
    /\ start_time' = ShiftPast(start_time, ProgressTicks)
    /\ UNCHANGED <<now, cpc, nodeVars, confVars, detVars, processed, cacheVars, fetchVars, block_number,
                   batchVars, pb_result, rcptVars, store_log, store_result, mpc,
                   shutdown_event, tpc, current_block, new_latest_block,
                   experiment_start_block, experiment_end_block, total_contracts,
                   report, exit_cause, rpc_unadmitted>>

\* A request leaves for the node; admittedFirst tells whether the code ran
\* track_request for it.
IssueRpc(admittedFirst) ==
    rpc_unadmitted' = rpc_unadmitted + (IF admittedFirst THEN 0 ELSE 1)

\* ------------------------------------------------- callers of the governor
\* A coroutine calls track_request (await track_request()).
CallerCall(c) ==
    /\ cpc[c] = "idle"
    /\ cpc' = [cpc EXCEPT ![c] = "track"]
    /\ UNCHANGED <<now, govVars, nodeVars, confVars, detVars, processed, cacheVars, fetchVars, block_number,
                   batchVars, pb_result, rcptVars, store_log, store_result, mainVars,
                   rpc_unadmitted>>

\* The call runs: it either records the request and returns, or sleeps.
CallerTrack(c) ==
    /\ cpc[c] = "track"
    /\ now >= wake[c]
    /\ IF TR_Blocked
       THEN TR_Sleep(c) /\ UNCHANGED cpc
       ELSE TR_Admit(c) /\ cpc' = [cpc EXCEPT ![c] = "idle"]
    /\ UNCHANGED <<now, nodeVars, confVars, detVars, processed, cacheVars, fetchVars, block_number,
                   batchVars, pb_result, rcptVars, store_log, store_result, mainVars,
                   rpc_unadmitted>>

\* ------------------------------------------------------------ block cache
SetMin(S) == CHOOSE m \in S : \A x \in S : m <= x

Restrict(f, S) == [x \in S |-> f[x]]

CacheNeverFull(cache) == FALSE

\* if len(block_cache) >= CACHE_SIZE
CacheFull(cache) == Cardinality(DOMAIN cache) >= CACHE_SIZE

CacheEvictHighest(cache) ==
    IF CacheFull(cache)
    THEN LET highest == CHOOSE m \in DOMAIN cache : \A x \in DOMAIN cache : m >= x
         IN Restrict(cache, DOMAIN cache \ {highest})
    ELSE cache

\* oldest_block = min(block_cache.keys()); del block_cache[oldest_block]
CacheEvict(cache) ==
    IF CacheFull(cache)
    THEN Restrict(cache, DOMAIN cache \ {SetMin(DOMAIN cache)})
    ELSE cache

\* block_cache[block_number] = block, after the eviction
CacheInsert(cache, n, block) ==
    LET kept == CacheEvict(cache) IN
    [k \in DOMAIN kept \cup {n} |-> IF k = n THEN block ELSE kept[k]]

\* prefetch_block_data from "await track_request()" to its next suspension:
\* the sleep of track_request, or the get_block call handed to the executor.
PrefetchTrack(t) ==
    IF TR_Blocked
    THEN /\ TR_Sleep(t)
         /\ ppc' = [ppc EXCEPT ![t] = "track"]
         /\ UNCHANGED rpc_unadmitted
    ELSE /\ TR_Admit(t)
         /\ ppc' = [ppc EXCEPT ![t] = "rpc"]
         /\ IssueRpc(TRUE)

\* prefetch_block_data(n) is entered by task t: a cached block is returned at
\* once, otherwise the fetch starts.
PrefetchEnter(t, n) ==
    /\ pnum' = [pnum EXCEPT ![t] = n]
    /\ IF n \in DOMAIN block_cache
       THEN /\ ppc' = [ppc EXCEPT ![t] = "returned"]
            /\ pret' = [pret EXCEPT ![t] = block_cache[n]]
            /\ UNCHANGED <<govVars, rpc_unadmitted>>
       ELSE /\ PrefetchTrack(t)
            /\ UNCHANGED pret
    /\ UNCHANGED <<now, cpc, nodeVars, confVars, detVars, processed, cacheVars, batchVars, pb_result,
                   rcptVars, store_log, store_result, shutdown_event, tpc, loopVars, report,
                   exit_cause>>

\* track_request wakes from its sleep inside prefetch_block_data.
PrefetchWake(t) ==
    /\ Alive
    /\ ppc[t] = "track"
    /\ now >= wake[t]
    /\ PrefetchTrack(t)
    /\ UNCHANGED <<now, cpc, nodeVars, confVars, detVars, processed, cacheVars, pnum, pret, block_number,
                   batchVars, pb_result, rcptVars, store_log, store_result, mainVars>>

\* get_block answers: the cache is updated and the block returned.
PrefetchRpcReturn(t) ==
    /\ Alive
    /\ ppc[t] = "rpc"
    /\ LET block == [number |-> pnum[t], transactions |-> chain[pnum[t]]] IN
       /\ oldest_block' = IF CacheFull(block_cache)
                           THEN SetMin(DOMAIN block_cache) ELSE oldest_block
       /\ block_cache' = CacheInsert(block_cache, pnum[t], block)
       /\ pret' = [pret EXCEPT ![t] = block]
    /\ ppc' = [ppc EXCEPT ![t] = "returned"]
    /\ UNCHANGED <<now, govVars, cpc, nodeVars, confVars, detVars, processed, pnum, block_number, batchVars,
                   pb_result, rcptVars, store_log, store_result, mainVars, rpc_unadmitted>>

\* get_block raises: prefetch_block_data has no handler, the error leaves it.
PrefetchRpcRaise(t) ==
    /\ Alive
    /\ ppc[t] = "rpc"
    /\ ppc' = [ppc EXCEPT ![t] = "raised"]
    /\ UNCHANGED <<now, govVars, cpc, nodeVars, confVars, detVars, processed, cacheVars, pnum, pret,
                   block_number, batchVars, pb_result, rcptVars, store_log, store_result,
                   mainVars, rpc_unadmitted>>

\* ---------------------------------------- concurrent users of the cache
FetcherCall(f) ==
    /\ ppc[f] = "idle"
    /\ \E n \in Heights : PrefetchEnter(f, n)
    /\ UNCHANGED <<block_number, mpc>>

\* The caller takes the result (or the error) of prefetch_block_data.
FetcherDone(f) ==
    /\ ppc[f] \in {"returned", "raised"}
    /\ ppc' = [ppc EXCEPT ![f] = "idle"]
    /\ pret' = [pret EXCEPT ![f] = NoBlock]
    /\ UNCHANGED <<now, govVars, cpc, nodeVars, confVars, detVars, processed, cacheVars, pnum, block_number,
                   batchVars, pb_result, rcptVars, store_log, store_result, mainVars,
                   rpc_unadmitted>>

\* ------------------------------------------------------ creation detector
\* Text is a sequence of characters.  An input payload is either a str or a
\* bytes object; for bytes, text holds the hex digits of the bytes.
StartsWith(s, p) == Len(s) >= Len(p) /\ SubSeq(s, 1, Len(p)) = p

HexPrefix == <<"0", "x">>

\* creation_patterns
creation_patterns ==
    { <<"0", "x", "6", "0", "8", "0", "6", "0", "4", "0">>,
      <<"0", "x", "6", "0", "6", "0", "6", "0", "4", "0">> }

\* len(input_data)
PyLen(d) == IF d.isbytes THEN Len(d.text) \div 2 ELSE Len(d.text)

\* bytes.hex(): the hex digits, without a prefix
BytesHex(d) == d.text

IsPotentialByPatternOnly(tx) ==
    LET d == tx.input IN
    /\ PyLen(d) > 2
    /\ LET s == IF d.isbytes THEN BytesHex(d)
                ELSE IF ~StartsWith(d.text, HexPrefix) THEN HexPrefix \o d.text
                     ELSE d.text
       IN \E p \in creation_patterns : StartsWith(s, p)

IsPotentialContractCreation(tx) ==
    IF tx.to = "none" THEN TRUE
    ELSE LET d == tx.input IN
         IF PyLen(d) > 0 /\ PyLen(d) > 2
         THEN LET s == IF d.isbytes THEN BytesHex(d)
                       ELSE IF ~StartsWith(d.text, HexPrefix)
                            THEN HexPrefix \o d.text
                            ELSE d.text
              IN \E p \in creation_patterns : StartsWith(s, p)
         ELSE FALSE

\* return receipt.contractAddress is not None  (0 stands for None)
ConfirmContractCreation(receipt) == receipt.contractAddress # 0

\* The transactions the modelled chain holds: a creation (no recipient) and
\* a call of a contract.  A transaction's hash is its position in its block.
InitCode == [isbytes |-> FALSE,
             text |-> <<"0", "x", "6", "0", "8", "0", "6", "0", "4", "0", "5", "2">>]
CallData == [isbytes |-> FALSE,
             text |-> <<"0", "x", "a", "9", "0", "5", "9", "c", "b", "b">>]
TxShapes == {"create", "call"}
TxOf(shape, h) ==
    IF shape = "create"
    THEN [hash |-> h, to |-> "none", input |-> InitCode]
    ELSE [hash |-> h, to |-> "addr", input |-> CallData]
BlockTxs(shapes) == [i \in 1..Len(shapes) |-> TxOf(shapes[i], i)]
BlocksUpTo(n) == {BlockTxs(s) : s \in UNION {[1..k -> TxShapes] : k \in 0..n}}

\* The transactions is_potential_contract_creation is tried on: with and
\* without a recipient, the input a str or a bytes object, empty, too short,
\* with and without the 0x prefix, with and without a creation pattern.
HexTexts ==
    { <<>>, <<"6", "0">>, <<"6", "0", "8", "0">>,
      <<"6", "0", "8", "0", "6", "0", "4", "0">>,
      <<"6", "0", "6", "0", "6", "0", "4", "0">>,
      <<"6", "0", "8", "0", "6", "0", "4", "0", "5", "2">>,
      <<"6", "0", "8", "0", "6", "0", "5", "2">>,
      <<"a", "9", "0", "5", "9", "c", "b", "b">> }
DetectInputs ==
    {[isbytes |-> TRUE, text |-> t] : t \in HexTexts}
        \cup {[isbytes |-> FALSE, text |-> t] : t \in HexTexts}
        \cup {[isbytes |-> FALSE, text |-> HexPrefix \o t] : t \in HexTexts}
DetectTxs ==
    {[hash |-> h, to |-> to, input |-> d] :
        h \in 1..DetectHashes, to \in {"none", "addr"}, d \in DetectInputs}
NoTx == [hash |-> 0, to |-> "none", input |-> [isbytes |-> FALSE, text |-> <<>>]]

\* is_potential_contract_creation(det_tx) is called.
DetectCall ==
    /\ det_out = "none"
    /\ det_tx # NoTx
    /\ det_out' = IF IsPotentialContractCreation(det_tx) THEN "True" ELSE "False"
    /\ UNCHANGED <<now, govVars, cpc, nodeVars, confVars, det_tx, processed, cacheVars, fetchVars,
                   block_number, batchVars, pb_result, rcptVars, store_log, store_result,
                   mainVars, rpc_unadmitted>>

\* get_receipt returned None
NoneReceipt == [transactionHash |-> 0, contractAddress |-> 0]
\* The ways a request to the node fails: retryable stands for a rate-limited
\* or transient connection error, fatal for any other error.
ErrorKinds == {"retryable", "fatal"}

\* ---------------------------------------------------------- process_block
CandidatesUnfiltered(txs) == txs

\* potential_creations = [tx for tx in transactions if is_potential_contract_creation(tx)]
Candidates(txs) == SelectSeq(txs, IsPotentialContractCreation)

\* [s[i:i + size] for i in range(0, len(s), size)]
Partition(s, size) ==
    [i \in 1..((Len(s) + size - 1) \div size) |->
        SubSeq(s, (i - 1) * size + 1, Min(i * size, Len(s)))]

MaxBatches == (MaxTxs + BATCH_SIZE - 1) \div BATCH_SIZE
Transactions == pret[Main].transactions
Batches == Partition(Transactions, batch_size)
\* per batch: the receipt coroutines, in the order of tx_hashes, grouped as
\* batch_rpc_requests groups them
SubBatches(b) == Partition(Candidates(Batches[b]), rpc_batch_size)
HashesOf(txs) == {txs[i].hash : i \in 1..Len(txs)}

\* process_block(block_number) is called and runs to its first suspension.
ProcessBlockCall ==
    /\ mpc = "call_pb"
    /\ PrefetchEnter(Main, block_number)
    /\ mpc' = "pb_fetch"
    /\ UNCHANGED block_number

\* prefetch_block_data raised: the error leaves process_block.
ProcessBlockRaised ==
    /\ mpc = "pb_fetch"
    /\ ppc[Main] = "raised"
    /\ mpc' = "pb_raised"
    /\ ppc' = [ppc EXCEPT ![Main] = "idle"]
    /\ UNCHANGED <<now, govVars, cpc, nodeVars, confVars, detVars, processed, cacheVars, pnum, pret,
                   block_number, batchVars, pb_result, rcptVars, store_log, store_result,
                   shutdown_event, tpc, loopVars, report, exit_cause,
                   rpc_unadmitted>>

\* The block arrived: the pre-check, then the batches are created and gathered.
ProcessBlockFetched ==
    /\ mpc = "pb_fetch"
    /\ ppc[Main] = "returned"
    /\ ppc' = [ppc EXCEPT ![Main] = "idle"]
    /\ LET n == Len(Batches)
           some == Candidates(Transactions) # <<>> IN
       /\ mpc' = IF some THEN "pb_gather" ELSE "pb_returned"
       /\ pb_result' = 0
       /\ sem' = MAX_CONCURRENT_BATCHES
       /\ bpc' = [b \in 1..MaxBatches |-> IF some /\ b <= n THEN "ready" ELSE "none"]
    /\ bsub' = [b \in 1..MaxBatches |-> 0]
    /\ breceipts' = [b \in 1..MaxBatches |-> <<>>]
    /\ bresult' = [b \in 1..MaxBatches |-> <<>>]
    /\ rp' = [h \in Hashes |-> "none"]
    /\ retries' = [h \in Hashes |-> 0]
    /\ backoff' = [h \in Hashes |-> 0]
    /\ rres' = [h \in Hashes |-> NoneReceipt]
    /\ rerr' = [h \in Hashes |-> "none"]
    /\ attempts' = [h \in Hashes |-> 0]
    /\ delays' = [h \in Hashes |-> <<>>]
    /\ UNCHANGED <<now, govVars, cpc, nodeVars, confVars, detVars, processed, cacheVars, pnum, pret,
                   block_number, store_log, store_result, shutdown_event, tpc, loopVars,
                   report, exit_cause, rpc_unadmitted>>

SemaphoreAlwaysFree(s) == TRUE

\* Semaphore.acquire returns without waiting while the value is positive
SemaphoreFree(s) == s > 0

\* The batch holds the semaphore and runs process_transactions_batch up to the
\* first gather of batch_rpc_requests; a batch without candidates returns
\* ([], 0) and leaves the semaphore at once.
BatchEnter(b) ==
    LET subs == SubBatches(b) IN
    IF subs = <<>>
    THEN /\ bpc' = [bpc EXCEPT ![b] = "done"]
         /\ UNCHANGED <<sem, bsub, rp>>
    ELSE /\ bpc' = [bpc EXCEPT ![b] = "running"]
         /\ sem' = sem - 1
         /\ bsub' = [bsub EXCEPT ![b] = 1]
         /\ rp' = [h \in Hashes |->
                     IF h \in HashesOf(subs[1]) THEN "ready" ELSE rp[h]]

\* A batch task starts: async with semaphore.
BatchStart(b) ==
    /\ Alive
    /\ bpc[b] = "ready"
    /\ IF SemaphoreFree(sem)
       THEN BatchEnter(b)
       ELSE /\ bpc' = [bpc EXCEPT ![b] = "wait_sem"]
            /\ UNCHANGED <<sem, bsub, rp>>
    /\ UNCHANGED <<now, govVars, cpc, nodeVars, confVars, detVars, processed, cacheVars, fetchVars,
                   block_number, breceipts, bresult, pb_result, retries,
                   backoff, rres, rerr, attempts, delays, store_log, store_result, mainVars,
                   rpc_unadmitted>>

\* A batch waiting for the semaphore gets it.
BatchAcquire(b) ==
    /\ Alive
    /\ bpc[b] = "wait_sem"
    /\ SemaphoreFree(sem)
    /\ BatchEnter(b)
    /\ UNCHANGED <<now, govVars, cpc, nodeVars, confVars, detVars, processed, cacheVars, fetchVars,
                   block_number, breceipts, bresult, pb_result, retries,
                   backoff, rres, rerr, attempts, delays, store_log, store_result, mainVars,
                   rpc_unadmitted>>

\* ------------------------------------------------------------ get_receipt
NextRetriesStuck(r) == r

\* retries += 1
NextRetries(r) == r + 1

\* while retries < MAX_RETRIES
RetryLoop(r) == r < MAX_RETRIES

RetriesExhaustedAtFirst(r) == r >= 1

\* if retries == MAX_RETRIES
RetriesExhausted(r) == r = MAX_RETRIES

NextBackoffConstant(d) == d

\* backoff *= 2
NextBackoff(d) == d * 2

\* One turn of the retry loop from "await track_request()" to its next
\* suspension: the sleep of track_request, or the receipt call handed to the
\* executor.
ReceiptAttempt(h) ==
    IF TR_Blocked
    THEN /\ TR_Sleep(Receipt(h))
         /\ rp' = [rp EXCEPT ![h] = "track"]
         /\ UNCHANGED <<attempts, rpc_unadmitted>>
    ELSE /\ TR_Admit(Receipt(h))
         /\ rp' = [rp EXCEPT ![h] = "rpc"]
         /\ attempts' = [attempts EXCEPT ![h] = @ + 1]
         /\ IssueRpc(TRUE)

\* get_receipt(tx_hash) starts.
ReceiptStart(h) ==
    /\ Alive
    /\ rp[h] = "ready"
    /\ retries' = [retries EXCEPT ![h] = 0]
    /\ backoff' = [backoff EXCEPT ![h] = INITIAL_BACKOFF]
    /\ IF RetryLoop(0)
       THEN ReceiptAttempt(h) /\ UNCHANGED rres
       ELSE /\ rp' = [rp EXCEPT ![h] = "done"]
            /\ rres' = [rres EXCEPT ![h] = NoneReceipt]
            /\ UNCHANGED <<govVars, attempts, rpc_unadmitted>>
    /\ UNCHANGED <<now, cpc, nodeVars, confVars, detVars, processed, cacheVars, fetchVars, block_number,
                   batchVars, pb_result, rerr, delays, store_log, store_result, mainVars>>

\* track_request wakes from its sleep inside get_receipt.
ReceiptTrackWake(h) ==
    /\ Alive
    /\ rp[h] = "track"
    /\ now >= wake[Receipt(h)]
    /\ ReceiptAttempt(h)
    /\ UNCHANGED <<now, cpc, nodeVars, confVars, detVars, processed, cacheVars, fetchVars, block_number,
                   batchVars, pb_result, retries, backoff, rres, rerr, delays,
                   store_log, store_result, mainVars>>

\* The node answers with the receipt of tx_hash; it carries a contract
\* address (the one created by transaction h, written h) or none (0).
ReceiptReturn(h) ==
    /\ Alive
    /\ rp[h] = "rpc"
    /\ \E ca \in {0, h} :
          rres' = [rres EXCEPT ![h] = [transactionHash |-> h, contractAddress |-> ca]]
    /\ rp' = [rp EXCEPT ![h] = "done"]
    /\ UNCHANGED <<now, govVars, cpc, nodeVars, confVars, detVars, processed, cacheVars, fetchVars,
                   block_number, batchVars, pb_result, retries, backoff, rerr,
                   attempts, delays, store_log, store_result, mainVars, rpc_unadmitted>>

\* The request fails: except Exception.
ReceiptRaise(h) ==
    /\ Alive
    /\ rp[h] = "rpc"
    /\ \E e \in ErrorKinds :
          LET r == NextRetries(retries[h]) IN
          /\ retries' = [retries EXCEPT ![h] = r]
          /\ IF RetriesExhausted(r)
             THEN /\ rp' = [rp EXCEPT ![h] = "done"]
                  /\ rres' = [rres EXCEPT ![h] = NoneReceipt]
                  /\ UNCHANGED <<wake, rerr, delays>>
             ELSE /\ rp' = [rp EXCEPT ![h] = "backoff"]
                  /\ wake' = [wake EXCEPT ![Receipt(h)] = now + Seconds(backoff[h])]
                  /\ rerr' = [rerr EXCEPT ![h] = e]
                  /\ delays' = [delays EXCEPT ![h] = Append(@, backoff[h])]
                  /\ UNCHANGED rres
    /\ UNCHANGED <<now, request_times, admitted, cpc, nodeVars, confVars, detVars, processed, cacheVars,
                   fetchVars, block_number, batchVars, pb_result, backoff,
                   attempts, store_log, store_result, mainVars, rpc_unadmitted>>

\* The backoff sleep ends: backoff doubles and the loop goes round.
ReceiptBackoffWake(h) ==
    /\ Alive
    /\ rp[h] = "backoff"
    /\ now >= wake[Receipt(h)]
    /\ backoff' = [backoff EXCEPT ![h] = NextBackoff(@)]
    /\ rerr' = [rerr EXCEPT ![h] = "none"]
    /\ IF RetryLoop(retries[h])
       THEN ReceiptAttempt(h) /\ UNCHANGED rres
       ELSE /\ rp' = [rp EXCEPT ![h] = "done"]
            /\ rres' = [rres EXCEPT ![h] = NoneReceipt]
            /\ UNCHANGED <<govVars, attempts, rpc_unadmitted>>
    /\ UNCHANGED <<now, cpc, nodeVars, confVars, detVars, processed, cacheVars, fetchVars, block_number,
                   batchVars, pb_result, retries, delays, store_log, store_result, mainVars>>

\* ------------------------------------------- process_transactions_batch
AssembleRecordsUnconfirmed(cands, receipts, bn) ==
    LET pairs == [i \in 1..Min(Len(cands), Len(receipts)) |-> <<cands[i], receipts[i]>>]
        fetched == SelectSeq(pairs, LAMBDA p : p[2] # NoneReceipt)
    IN [i \in 1..Len(fetched) |->
          [tx_hash |-> fetched[i][1].hash,
           block_number |-> bn,
           contract_address |-> fetched[i][2].contractAddress]]

\* for tx, receipt in zip(potential_creations, receipts):
\*     if receipt and confirm_contract_creation(receipt): ... append(contract_data)
AssembleRecords(cands, receipts, bn) ==
    LET pairs == [i \in 1..Min(Len(cands), Len(receipts)) |-> <<cands[i], receipts[i]>>]
        confirmed == SelectSeq(pairs, LAMBDA p :
                        p[2] # NoneReceipt /\ ConfirmContractCreation(p[2]))
    IN [i \in 1..Len(confirmed) |->
          [tx_hash |-> confirmed[i][1].hash,
           block_number |-> bn,
           contract_address |-> confirmed[i][2].contractAddress]]

GatherResultsReversed(coros) ==
    [i \in 1..Len(coros) |-> rres[coros[Len(coros) + 1 - i].hash]]

\* asyncio.gather returns the results in the order of its arguments
GatherResults(coros) == [i \in 1..Len(coros) |-> rres[coros[i].hash]]

\* The gather of the current sub-batch is complete: batch_rpc_requests goes on
\* to the next sub-batch, or the batch assembles its records, returns and
\* leaves the semaphore.
BatchResume(b) ==
    /\ Alive
    /\ bpc[b] = "running"
    /\ LET subs == SubBatches(b)
           k == bsub[b]
           results == breceipts[b] \o GatherResults(subs[k]) IN
       /\ \A i \in 1..Len(subs[k]) : rp[subs[k][i].hash] = "done"
       /\ breceipts' = [breceipts EXCEPT ![b] = results]
       /\ IF k < Len(subs)
          THEN /\ bsub' = [bsub EXCEPT ![b] = k + 1]
               /\ rp' = [h \in Hashes |->
                           IF h \in HashesOf(subs[k + 1]) THEN "ready" ELSE rp[h]]
               /\ UNCHANGED <<sem, bpc, bresult>>
          ELSE /\ bresult' = [bresult EXCEPT ![b] =
                     AssembleRecords(Candidates(Batches[b]), results, block_number)]
               /\ sem' = sem + 1
               /\ bpc' = [bpc EXCEPT ![b] = "done"]
               /\ UNCHANGED <<bsub, rp>>
    /\ UNCHANGED <<now, govVars, cpc, nodeVars, confVars, detVars, processed, cacheVars, fetchVars,
                   block_number, pb_result, retries, backoff, rres, rerr,
                   attempts, delays, store_log, store_result, mainVars, rpc_unadmitted>>

AllContractDataLastOnly(results) ==
    IF results = <<>> THEN <<>> ELSE results[Len(results)]

\* all_contract_data = []; for ... in results: all_contract_data.extend(contract_data_list)
AllContractData(results) == Concat(results)

\* What store_transactions_batch answers: a truthy result, a falsy result, or
\* an exception (duplicate key, or another failure).
StoreOutcomes == {"stored", "rejected", "raise_duplicate", "raise_other"}

StoredContractsIgnoringOutcome(outcome, data) == Len(data)

StoredContractsOne(outcome, data) == IF outcome = "stored" THEN 1 ELSE 0

\* stored_contracts = 0; if batch_result: stored_contracts = len(all_contract_data);
\* a falsy result and an exception are logged
StoredContracts(outcome, data) == IF outcome = "stored" THEN Len(data) ELSE 0

GatherDoneAny == \E b \in 1..Len(Batches) : bpc[b] = "done"

\* results = await asyncio.gather(*tasks): every batch task has returned
GatherDone == \A b \in 1..Len(Batches) : bpc[b] = "done"

\* Every batch is done: the records are combined in batch order and stored in
\* one call; process_block returns stored_contracts.
ProcessBlockGathered ==
    /\ mpc = "pb_gather"
    /\ GatherDone
    /\ LET all_contract_data == AllContractData([b \in 1..Len(Batches) |-> bresult[b]]) IN
       IF all_contract_data # <<>>
       THEN /\ store_log' = Append(store_log, all_contract_data)
            /\ \E outcome \in StoreOutcomes :
                  /\ store_result' = outcome
                  /\ pb_result' = StoredContracts(outcome, all_contract_data)
       ELSE /\ pb_result' = 0
            /\ UNCHANGED <<store_log, store_result>>
    /\ mpc' = "pb_returned"
    /\ UNCHANGED <<now, govVars, cpc, nodeVars, confVars, detVars, processed, cacheVars, fetchVars,
                   block_number, batchVars, rcptVars, shutdown_event, tpc,
                   loopVars, report, exit_cause, rpc_unadmitted>>

\* ------------------------------------------------------------------- main
\* The node's chain grows.
HeadAdvance ==
    /\ Alive
    /\ head + 1 \in DOMAIN chain
    /\ head' = head + 1
    /\ UNCHANGED <<now, govVars, cpc, chain, horizon, confVars, detVars, processed, cacheVars, fetchVars,
                   block_number, batchVars, pb_result, rcptVars, store_log, store_result,
                   mainVars, rpc_unadmitted>>

\* "await track_request()" in main, to its sleep or to its return.
MainTrack(sleeping, admittedPc) ==
    IF TR_Blocked
    THEN TR_Sleep(Main) /\ mpc' = sleeping
    ELSE TR_Admit(Main) /\ mpc' = admittedPc

\* cleanup_and_shutdown, run k times in a row: each run asks the node for the
\* chain head, writes the final report (or, when that raised, the error
\* entry) and calls exit(0).
Cleanup(k) ==
    /\ \E entries \in [1..k -> {"final", "error"}] : report' = report \o entries
    /\ rpc_unadmitted' = rpc_unadmitted + k

\* The except clause of main runs cleanup_and_shutdown; the SystemExit of its
\* exit(0) passes through the finally clause, which runs it again when the
\* shutdown event is set.
ExceptionExit(cause) ==
    /\ Cleanup(IF shutdown_event THEN 2 ELSE 1)
    /\ exit_cause' = cause
    /\ mpc' = "terminated"

\* main starts: test_connection(), then the first track_request.
MainStart ==
    /\ mpc = "start"
    /\ \E connected \in BOOLEAN :
          IF connected
          THEN MainTrack("track_init", "head_init") /\ UNCHANGED exit_cause
          ELSE /\ mpc' = "terminated"
               /\ exit_cause' = "no_database"
               /\ UNCHANGED govVars
    /\ UNCHANGED <<now, cpc, nodeVars, confVars, detVars, processed, cacheVars, fetchVars, block_number,
                   batchVars, pb_result, rcptVars, store_log, store_result, shutdown_event,
                   tpc, loopVars, report, rpc_unadmitted>>

\* track_request wakes from its sleep inside main and goes round its loop.
MainTrackWake ==
    /\ mpc \in {"track_init", "track_poll"}
    /\ now >= wake[Main]
    /\ MainTrack(mpc, IF mpc = "track_init" THEN "head_init" ELSE "head_poll")
    /\ UNCHANGED <<now, cpc, nodeVars, confVars, detVars, processed, cacheVars, fetchVars, block_number,
                   batchVars, pb_result, rcptVars, store_log, store_result, shutdown_event,
                   tpc, loopVars, report, exit_cause, rpc_unadmitted>>

\* latest_block = w3.eth.block_number, before the try statement: an error
\* here leaves main.  Then the tracking variables and the timer task.
MainHeadInit ==
    /\ mpc = "head_init"
    /\ IssueRpc(TRUE)
    /\ \E ok \in BOOLEAN :
          IF ok
          THEN /\ experiment_start_block' = head
               /\ current_block' = head
               /\ start_time' = now
               /\ tpc' = "sleeping"
               /\ wake' = [wake EXCEPT ![Timer] = now + SessionTicks]
               /\ mpc' = "loop"
               /\ UNCHANGED exit_cause
          ELSE /\ mpc' = "crashed"
               /\ exit_cause' = "head_error"
               /\ UNCHANGED <<experiment_start_block, current_block,
                              start_time, tpc, wake>>
    /\ UNCHANGED <<now, request_times, admitted, cpc, nodeVars, confVars, detVars, processed, cacheVars,
                   fetchVars, block_number, batchVars, pb_result, rcptVars,
                   store_log, store_result, shutdown_event, new_latest_block,
                   experiment_end_block, total_contracts, report>>

WhileLoopNeverEnds == FALSE

\* while not shutdown_event.is_set()
WhileLoopEnds == shutdown_event

\* while not shutdown_event.is_set(): ... await track_request().  With the
\* event set, the loop ends and the finally clause runs cleanup_and_shutdown.
MainLoop ==
    /\ mpc = "loop"
    /\ IF WhileLoopEnds
       THEN /\ Cleanup(1)
            /\ exit_cause' = "shutdown"
            /\ mpc' = "terminated"
            /\ UNCHANGED govVars
       ELSE /\ MainTrack("track_poll", "head_poll")
            /\ UNCHANGED <<report, exit_cause, rpc_unadmitted>>
    /\ UNCHANGED <<now, cpc, nodeVars, confVars, detVars, processed, cacheVars, fetchVars, block_number,
                   batchVars, pb_result, rcptVars, store_log, store_result, shutdown_event,
                   tpc, loopVars>>

RangeStartSkipsOne(current) == current + 1

\* range(current_block, new_latest_block + 1) starts at current_block
RangeStart(current) == current

\* blocks_processed = experiment_end_block - experiment_start_block
\*     if experiment_end_block and experiment_start_block else 0
\* in cleanup_and_shutdown (0 stands for None)
FinalBlocksProcessed ==
    IF experiment_end_block # 0 /\ experiment_start_block # 0
    THEN experiment_end_block - experiment_start_block ELSE 0

\* What the node answers to a head query in the loop: its head, or an older
\* one (the answer of a replica that lags).
HeadAnswers == 1..head

\* new_latest_block = w3.eth.block_number, inside the try statement; then the
\* for loop is entered, or the loop sleeps for a second.
MainHeadPoll ==
    /\ mpc = "head_poll"
    /\ \E ok \in BOOLEAN, answer \in HeadAnswers :
          IF ok
          THEN /\ IssueRpc(TRUE)
               /\ new_latest_block' = answer
               /\ IF answer > current_block
                  THEN /\ block_number' = RangeStart(current_block)
                       /\ mpc' = "for"
                       /\ UNCHANGED wake
                  ELSE /\ mpc' = "idle_sleep"
                       /\ wake' = [wake EXCEPT ![Main] = now + Seconds(1)]
                       /\ UNCHANGED block_number
               /\ UNCHANGED <<report, exit_cause>>
          ELSE /\ ExceptionExit("head_error")
               /\ UNCHANGED <<wake, new_latest_block, block_number>>
    /\ UNCHANGED <<now, request_times, admitted, cpc, nodeVars, confVars, detVars, processed, cacheVars,
                   fetchVars, batchVars, pb_result, rcptVars, store_log, store_result,
                   shutdown_event, tpc, current_block, experiment_start_block,
                   experiment_end_block, total_contracts, start_time>>

\* The end of one turn of the while loop: if elapsed_time >= 60, a progress
\* entry is written to the report and start_time is reset.
ProgressReport ==
    IF now - start_time >= ProgressTicks
    THEN /\ report' = Append(report, "progress")
         /\ start_time' = now
    ELSE UNCHANGED <<report, start_time>>

NextCurrentBlockBehind(latest) == latest - 2

\* current_block = new_latest_block + 1
NextCurrentBlock(latest) == latest + 1

ForLoopEndsIgnoringEvent == block_number > new_latest_block

\* The for loop is left: the range is exhausted, or
\*     if shutdown_event.is_set(): break
ForLoopEnds == block_number > new_latest_block \/ shutdown_event

\* for block_number in range(current_block, new_latest_block + 1):
\*     if shutdown_event.is_set(): break
\* and, after the loop, current_block = new_latest_block + 1.
MainFor ==
    /\ mpc = "for"
    /\ IF ForLoopEnds
       THEN /\ current_block' = NextCurrentBlock(new_latest_block)
            /\ ProgressReport
            /\ mpc' = "loop"
       ELSE /\ mpc' = "call_pb"
            /\ UNCHANGED <<current_block, report, start_time>>
    /\ UNCHANGED <<now, govVars, cpc, nodeVars, confVars, detVars, processed, cacheVars, fetchVars,
                   block_number, batchVars, pb_result, rcptVars, store_log, store_result,
                   shutdown_event, tpc, new_latest_block,
                   experiment_start_block, experiment_end_block,
                   total_contracts, exit_cause, rpc_unadmitted>>

\* process_block returned: the totals and experiment_end_block are updated.
MainBlockReturned ==
    /\ mpc = "pb_returned"
    /\ total_contracts' = total_contracts + pb_result
    /\ experiment_end_block' = block_number
    /\ block_number' = block_number + 1
    /\ processed' = Append(processed, block_number)
    /\ mpc' = "for"
    /\ UNCHANGED <<now, govVars, cpc, nodeVars, confVars, detVars, cacheVars, fetchVars, batchVars,
                   pb_result, rcptVars, store_log, store_result, shutdown_event, tpc,
                   current_block, new_latest_block, experiment_start_block,
                   start_time, report, exit_cause, rpc_unadmitted>>

\* process_block raised: except Exception in main.
MainBlockRaised ==
    /\ mpc = "pb_raised"
    /\ ExceptionExit("block_error")
    /\ UNCHANGED <<now, govVars, cpc, nodeVars, confVars, detVars, processed, cacheVars, fetchVars,
                   block_number, batchVars, pb_result, rcptVars, store_log, store_result,
                   shutdown_event, tpc, loopVars>>

\* await asyncio.sleep(1) ends.
MainIdleWake ==
    /\ mpc = "idle_sleep"
    /\ now >= wake[Main]
    /\ ProgressReport
    /\ mpc' = "loop"
    /\ UNCHANGED <<now, govVars, cpc, nodeVars, confVars, detVars, processed, cacheVars, fetchVars,
                   block_number, batchVars, pb_result, rcptVars, store_log, store_result,
                   shutdown_event, tpc, current_block, new_latest_block,
                   experiment_start_block, experiment_end_block,
                   total_contracts, exit_cause, rpc_unadmitted>>

\* The timer task wakes and sets the shutdown event.
TimerFire ==
    /\ tpc = "sleeping"
    /\ now >= wake[Timer]
    /\ Alive
    /\ MainSuspended
    /\ shutdown_event' = TRUE
    /\ tpc' = "done"
    /\ UNCHANGED <<now, govVars, cpc, nodeVars, confVars, detVars, processed, cacheVars, fetchVars,
                   block_number, batchVars, pb_result, rcptVars, store_log, store_result,
                   mpc, loopVars, report, exit_cause, rpc_unadmitted>>

\* blocks_processed = experiment_end_block - experiment_start_block
\*                    if experiment_end_block else 0      (0 stands for None)
BlocksProcessed ==
    IF experiment_end_block # 0
    THEN experiment_end_block - experiment_start_block ELSE 0

\* The metrics of signal_handler can be computed: experiment_end_block is not
\* None (line 104 subtracts it from the chain head) and blocks_processed is
\* not 0 (line 111 divides by it).
SignalMetricsDefined == experiment_end_block # 0 /\ BlocksProcessed # 0

\* SIGINT or SIGTERM arrives while the event loop waits.  signal_handler asks
\* the node for the chain head, logs the metrics, flushes and closes the log
\* handlers and ends the process with os._exit(0); it writes nothing to the
\* report file.  When the head query or the metrics raise, the exception
\* leaves the event loop: asyncio.run cancels main, whose finally clause runs
\* cleanup_and_shutdown when the shutdown event is set.
SignalHandler ==
    /\ Alive
    /\ MainSuspended
    /\ mpc # "none"
    /\ \E ok \in BOOLEAN :
          IF ok /\ SignalMetricsDefined
          THEN /\ mpc' = "terminated"
               /\ exit_cause' = "signal"
               /\ rpc_unadmitted' = rpc_unadmitted + 1
               /\ UNCHANGED report
          ELSE LET k == IF shutdown_event THEN 1 ELSE 0 IN
               /\ mpc' = "crashed"
               /\ exit_cause' = "signal_error"
               /\ \E entries \in [1..k -> {"final", "error"}] :
                     report' = report \o entries
               /\ rpc_unadmitted' = rpc_unadmitted + 1 + k
    /\ UNCHANGED <<now, govVars, cpc, nodeVars, confVars, detVars, processed, cacheVars, fetchVars,
                   block_number, batchVars, pb_result, rcptVars, store_log,
                   store_result, shutdown_event, tpc, loopVars>>

\* ------------------------------------------------------- specifications
InitBase ==
    /\ now = 0
    /\ wake = [t \in Tasks |-> 0]
    /\ cpc = [c \in Callers |-> "idle"]
    /\ block_cache = <<>>
    /\ oldest_block = 0
    /\ ppc = [t \in Fetchers \cup {Main} |-> "idle"]
    /\ pnum = [t \in Fetchers \cup {Main} |-> 0]
    /\ pret = [t \in Fetchers \cup {Main} |-> NoBlock]
    /\ sem = 0
    /\ bpc = [b \in 1..MaxBatches |-> "none"]
    /\ bsub = [b \in 1..MaxBatches |-> 0]
    /\ breceipts = [b \in 1..MaxBatches |-> <<>>]
    /\ bresult = [b \in 1..MaxBatches |-> <<>>]
    /\ pb_result = 0
    /\ processed = <<>>
    /\ rp = [h \in Hashes |-> "none"]
    /\ retries = [h \in Hashes |-> 0]
    /\ backoff = [h \in Hashes |-> 0]
    /\ rres = [h \in Hashes |-> NoneReceipt]
    /\ rerr = [h \in Hashes |-> "none"]
    /\ attempts = [h \in Hashes |-> 0]
    /\ delays = [h \in Hashes |-> <<>>]
    /\ store_log = <<>>
    /\ store_result = "none"
    /\ shutdown_event = FALSE
    /\ tpc = "none"
    /\ current_block = 0
    /\ new_latest_block = 0
    /\ experiment_start_block = 0
    /\ experiment_end_block = 0
    /\ total_contracts = 0
    /\ start_time = 0
    /\ report = <<>>
    /\ exit_cause = "none"
    /\ rpc_unadmitted = 0

\* is_potential_contract_creation is not followed on its own.
DetectorIdle == det_tx = NoTx /\ det_out = "none"

\* The batch sizes are the configured ones.
ConfiguredSizes == batch_size = BATCH_SIZE /\ rpc_batch_size = RPC_BATCH_SIZE

\* Coroutines call track_request concurrently.
InitGov ==
    /\ InitBase
    /\ DetectorIdle
    /\ ConfiguredSizes
    /\ request_times = <<>>
    /\ admitted = <<>>
    /\ horizon = MaxTime
    /\ chain = [h \in Heights |-> <<>>]
    /\ head = 1
    /\ block_number = 0
    /\ mpc = "none"

NextGov ==
    \/ Tick
    \/ \E c \in Callers : CallerCall(c)
    \/ \E c \in Callers : CallerTrack(c)

SpecGov == InitGov /\ [][NextGov]_vars

\* Coroutines call prefetch_block_data concurrently, for any heights.
InitCache == InitGov

NextCache ==
    \/ Tick
    \/ \E f \in Fetchers : FetcherCall(f)
    \/ \E f \in Fetchers : PrefetchWake(f)
    \/ \E f \in Fetchers : PrefetchRpcReturn(f)
    \/ \E f \in Fetchers : PrefetchRpcRaise(f)
    \/ \E f \in Fetchers : FetcherDone(f)

SpecCache == InitCache /\ [][NextCache]_vars

\* The requests main has made (track_request at line 477 and at line 494)
\* in the instant before it calls process_block: none of them still in the
\* window, or up to RPC_LIMIT of them.
EarlierRequests == {[i \in 1..k |-> 0] : k \in 0..RPC_LIMIT}

\* process_block(1) is called, for any block of up to MaxTxs transactions.
InitBlock ==
    /\ InitBase
    /\ DetectorIdle
    /\ ConfiguredSizes
    /\ request_times \in {<<>>, [i \in 1..RPC_LIMIT |-> 0]}
    /\ admitted = request_times
    /\ \E txs \in BlocksUpTo(MaxTxs) :
          chain = [h \in Heights |-> IF h = 1 THEN txs ELSE <<>>]
    /\ horizon = MaxTime
    /\ head = 1
    /\ block_number = 1
    /\ mpc = "call_pb"

BlockSteps ==
    \/ ProcessBlockCall
    \/ PrefetchWake(Main)
    \/ PrefetchRpcReturn(Main)
    \/ PrefetchRpcRaise(Main)
    \/ ProcessBlockRaised
    \/ ProcessBlockFetched
    \/ \E b \in 1..MaxBatches : BatchStart(b)
    \/ \E b \in 1..MaxBatches : BatchResume(b)
    \/ \E h \in Hashes : ReceiptStart(h)
    \/ \E h \in Hashes : ReceiptTrackWake(h)
    \/ \E h \in Hashes : ReceiptReturn(h)
    \/ \E h \in Hashes : ReceiptRaise(h)
    \/ \E h \in Hashes : ReceiptBackoffWake(h)
    \/ ProcessBlockGathered

\* Batches contend for the semaphore
NextBlock ==
    \/ Tick
    \/ BlockSteps
    \/ \E b \in 1..MaxBatches : BatchAcquire(b)

SpecBlock == InitBlock /\ [][NextBlock]_vars

\* process_block(1) is called for a block of one creation transaction: one
\* get_receipt call, followed through all its retries.
InitRetry ==
    /\ InitBase
    /\ DetectorIdle
    /\ ConfiguredSizes
    /\ request_times \in EarlierRequests
    /\ admitted = request_times
    /\ chain = [h \in Heights |-> IF h = 1 THEN BlockTxs(<<"create">>) ELSE <<>>]
    /\ horizon = RetryHorizon
    /\ head = 1
    /\ block_number = 1
    /\ mpc = "call_pb"

\* One candidate makes one batch: none waits for the semaphore.
NextRetry == Tick \/ BlockSteps

SpecRetry == InitRetry /\ [][NextRetry]_vars

\* is_potential_contract_creation is called on any of DetectTxs.
InitDetect ==
    /\ InitBase
    /\ ConfiguredSizes
    /\ det_tx \in DetectTxs
    /\ det_out = "none"
    /\ request_times = <<>>
    /\ admitted = <<>>
    /\ chain = [h \in Heights |-> <<>>]
    /\ horizon = 0
    /\ head = 1
    /\ block_number = 0
    /\ mpc = "none"

NextDetect == DetectCall

SpecDetect == InitDetect /\ [][NextDetect]_vars

\* A session of main in continuous mode, over any chain of blocks of up to
\* MainMaxTxs transactions.
InitMain ==
    /\ InitBase
    /\ DetectorIdle
    /\ ConfiguredSizes
    /\ request_times = <<>>
    /\ admitted = <<>>
    /\ chain \in [Heights -> BlocksUpTo(MainMaxTxs)]
    /\ horizon = MaxTime
    /\ head = 1
    /\ block_number = 0
    /\ mpc = "start"

NextMain ==
    \/ Tick
    \/ HeadAdvance
    \/ BlockSteps
    \/ MainStart
    \/ MainTrackWake
    \/ MainHeadInit
    \/ MainLoop
    \/ MainHeadPoll
    \/ MainFor
    \/ MainBlockReturned
    \/ MainBlockRaised
    \/ MainIdleWake
    \/ TimerFire
    \/ SignalHandler

SpecMain == InitMain /\ [][NextMain]_vars

\* A session of main with the scheduling of the event loop: a coroutine that
\* can run is run, a sleep that has ended wakes its coroutine, every call
\* handed to the executor answers (with a result or with an error) and the
\* clock advances.  Signals and the growth of the chain are the environment's
\* and need not happen.  The first block holds a call of a contract, the
\* later ones a creation.  Time is followed from now on (ClockShift).
InitLive ==
    /\ InitBase
    /\ DetectorIdle
    /\ ConfiguredSizes
    /\ request_times = <<>>
    /\ admitted = <<>>
    /\ chain = [h \in Heights |->
                  IF h = 1 THEN BlockTxs(<<"call">>) ELSE BlockTxs(<<"create">>)]
    /\ horizon = 0
    /\ head = 1
    /\ block_number = 0
    /\ mpc = "start"

NextLive ==
    \/ ClockShift
    \/ HeadAdvance
    \/ BlockSteps
    \/ MainStart
    \/ MainTrackWake
    \/ MainHeadInit
    \/ MainLoop
    \/ MainHeadPoll
    \/ MainFor
    \/ MainBlockReturned
    \/ MainBlockRaised
    \/ MainIdleWake
    \/ TimerFire
    \/ SignalHandler

Fairness ==
    /\ WF_vars(ClockShift)
    /\ WF_vars(ProcessBlockCall)
    /\ WF_vars(PrefetchWake(Main))
    /\ WF_vars(PrefetchRpcReturn(Main) \/ PrefetchRpcRaise(Main))
    /\ WF_vars(ProcessBlockRaised)
    /\ WF_vars(ProcessBlockFetched)
    /\ \A b \in 1..MaxBatches : WF_vars(BatchStart(b)) /\ WF_vars(BatchResume(b))
    /\ \A h \in Hashes :
          /\ WF_vars(ReceiptStart(h))
          /\ WF_vars(ReceiptTrackWake(h))
          /\ WF_vars(ReceiptReturn(h) \/ ReceiptRaise(h))
          /\ WF_vars(ReceiptBackoffWake(h))
    /\ WF_vars(ProcessBlockGathered)
    /\ WF_vars(MainStart)
    /\ WF_vars(MainTrackWake)
    /\ WF_vars(MainHeadInit)
    /\ WF_vars(MainLoop)
    /\ WF_vars(MainHeadPoll)
    /\ WF_vars(MainFor)
    /\ WF_vars(MainBlockReturned)
    /\ WF_vars(MainBlockRaised)
    /\ WF_vars(MainIdleWake)
    /\ WF_vars(TimerFire)

SpecLive == InitLive /\ [][NextLive]_vars /\ Fairness

\* Coroutines call track_request concurrently, under the scheduling of the
\* event loop: a call that can run is run and the clock advances.  Time is
\* followed from now on (ClockShift).
InitGovLive ==
    /\ InitBase
    /\ DetectorIdle
    /\ ConfiguredSizes
    /\ request_times = <<>>
    /\ admitted = <<>>
    /\ horizon = 0
    /\ chain = [h \in Heights |-> <<>>]
    /\ head = 1
    /\ block_number = 0
    /\ mpc = "none"

NextGovLive ==
    \/ ClockShift
    \/ \E c \in Callers : CallerCall(c)
    \/ \E c \in Callers : CallerTrack(c)

FairnessGov ==
    /\ WF_vars(ClockShift)
    /\ \A c \in Callers : WF_vars(CallerTrack(c))

SpecGovLive == InitGovLive /\ [][NextGovLive]_vars /\ FairnessGov

\* A session of main over a chain long enough for two ranges of blocks: the
\* last block holds a creation, the others a call of a contract.
InitScan ==
    /\ InitBase
    /\ DetectorIdle
    /\ ConfiguredSizes
    /\ request_times = <<>>
    /\ admitted = <<>>
    /\ chain = [h \in 1..ScanHeights |->
                  IF h = ScanHeights THEN BlockTxs(<<"create">>) ELSE BlockTxs(<<"call">>)]
    /\ horizon = MaxTime
    /\ head = 1
    /\ block_number = 0
    /\ mpc = "start"

SpecScan == InitScan /\ [][NextMain]_vars

\* process_block(1) is called for a block of MaxTxs creation transactions,
\* with the batch sizes configured so that a batch holds several candidates
\* and batch_rpc_requests splits them into sub-batches of one or of several
\* receipt fetches.
BatchSizes == 2..MaxTxs
RpcBatchSizes == 1..2

InitSplit ==
    /\ InitBase
    /\ DetectorIdle
    /\ batch_size \in BatchSizes
    /\ rpc_batch_size \in RpcBatchSizes
    /\ request_times \in {<<>>, [i \in 1..RPC_LIMIT |-> 0]}
    /\ admitted = request_times
    /\ chain = [h \in Heights |->
                  IF h = 1 THEN BlockTxs([i \in 1..MaxTxs |-> "create"]) ELSE <<>>]
    /\ horizon = MaxTime
    /\ head = 1
    /\ block_number = 1
    /\ mpc = "call_pb"

SpecSplit == InitSplit /\ [][NextRetry]_vars

Spec == SpecMain

\* ------------------------------------------------------------------ claims
\* C1: for any interleaving of concurrent calls to track_request, the number
\* of admissions whose recorded timestamps fall inside any trailing
\* REQUEST_WINDOW interval never exceeds RPC_LIMIT.  (admitted holds the
\* admissions of the window that ends now, and every instant is a now.)
C1_RateLimit == Len(admitted) <= RPC_LIMIT

\* The window is full again after an earlier one has passed, and a caller
\* sleeps in track_request because of it.
C1_Witness ==
    /\ Len(admitted) = RPC_LIMIT
    /\ now >= REQUEST_WINDOW
    /\ \E c \in Callers : cpc[c] = "track" /\ wake[c] > now

\* C2: while a block is processed, the number of batches executing
\* process_transactions_batch at the same time is at most
\* MAX_CONCURRENT_BATCHES, however many batches there are and in whatever
\* order they suspend and resume.
RunningBatches == {b \in 1..MaxBatches : bpc[b] = "running"}
C2_BatchConcurrency == Cardinality(RunningBatches) <= MAX_CONCURRENT_BATCHES

\* MAX_CONCURRENT_BATCHES batches run and another one waits for the semaphore.
C2_Witness ==
    /\ Cardinality(RunningBatches) = MAX_CONCURRENT_BATCHES
    /\ \E b \in 1..MaxBatches : bpc[b] = "wait_sem"

\* C3: after any sequence of block fetches through prefetch_block_data, in
\* any interleaving of their suspensions, block_cache holds at most
\* CACHE_SIZE entries.
C3_CacheBounded == Cardinality(DOMAIN block_cache) <= CACHE_SIZE

\* The cache is full after an eviction made room for a fetched block.
C3_Witness ==
    /\ Cardinality(DOMAIN block_cache) = CACHE_SIZE
    /\ oldest_block # 0
    /\ oldest_block \notin DOMAIN block_cache

\* C4: when the cache holds CACHE_SIZE entries and a fetched block that is
\* not cached is inserted, exactly the entry with the smallest block number
\* is evicted and the new block is inserted.
C4_EvictsLowest ==
    [][\A t \in Fetchers \cup {Main} :
          (/\ ppc[t] = "rpc" /\ ppc'[t] = "returned"
           /\ Cardinality(DOMAIN block_cache) = CACHE_SIZE
           /\ pnum[t] \notin DOMAIN block_cache)
          => /\ DOMAIN block_cache' =
                  (DOMAIN block_cache \ {SetMin(DOMAIN block_cache)}) \cup {pnum[t]}
             /\ block_cache'[pnum[t]].number = pnum[t]
             /\ \A k \in DOMAIN block_cache \cap DOMAIN block_cache' :
                   block_cache'[k] = block_cache[k]]_vars

\* A full cache of consecutive heights took the next height: the lowest one
\* left and the others stayed (the scaled form of 100..119 plus 120).
C4_Witness ==
    /\ oldest_block # 0
    /\ DOMAIN block_cache = (oldest_block + 1)..(oldest_block + CACHE_SIZE)
    /\ \E t \in Fetchers : ppc[t] = "returned" /\ pnum[t] = oldest_block + CACHE_SIZE

\* C5: one get_receipt call sends at most MAX_RETRIES requests to the node,
\* for every sequence of failures and successes of its attempts.
C5_AttemptsBounded == \A h \in Hashes : attempts[h] <= MAX_RETRIES

\* A call has failed MAX_RETRIES times and returned None.
C5_Witness ==
    \E h \in Hashes :
        /\ rp[h] = "done" /\ rres[h] = NoneReceipt
        /\ attempts[h] = MAX_RETRIES /\ retries[h] = MAX_RETRIES

\* C6 as stated: the first delay is INITIAL_BACKOFF, each later delay doubles
\* the previous one, and no delay exceeds MAX_BACKOFF, whatever value of at
\* least INITIAL_BACKOFF that option is given.
DelaysDouble ==
    \A h \in Hashes : \A i \in 1..Len(delays[h]) :
        delays[h][i] = IF i = 1 THEN INITIAL_BACKOFF ELSE 2 * delays[h][i - 1]
MaxBackoffOptions == INITIAL_BACKOFF..(4 * INITIAL_BACKOFF)
C8_EveryRequestAdmitted == rpc_unadmitted = 0

\* C9: when the receipt fetch of one candidate fails on all of its
\* MAX_RETRIES attempts, get_receipt returns None without raising, that
\* transaction alone is left out, and the records of the other confirmed
\* transactions of the block are still handed to the store: the records
\* submitted for a block are exactly those of the candidates whose receipt
\* arrived with a contract address.
CandidateHashes == HashesOf(Candidates(Transactions))
ConfirmedHashes ==
    {h \in CandidateHashes :
        rres[h] # NoneReceipt /\ ConfirmContractCreation(rres[h])}
SubmittedHashes ==
    IF store_log = <<>> THEN {}
    ELSE {store_log[1][i].tx_hash : i \in 1..Len(store_log[1])}
C9_FailedReceiptSkipped ==
    /\ mpc = "pb_returned" => /\ SubmittedHashes = ConfirmedHashes
                              /\ Len(store_log) <= 1
    /\ mpc = "pb_raised" => \A h \in Hashes : rp[h] = "none"

\* The block is done: one candidate failed MAX_RETRIES times and is not in
\* the submitted list, which holds the record of another candidate.
C9_Witness ==
    /\ mpc = "pb_returned"
    /\ \E h \in CandidateHashes :
          /\ rres[h] = NoneReceipt /\ attempts[h] = MAX_RETRIES
          /\ h \notin SubmittedHashes
    /\ SubmittedHashes # {}

\* C10: a failure while one block is processed (the block fetch raising) is
\* contained: the session does not terminate because of it.
C10_BlockFailureContained == ~(mpc = "terminated" /\ exit_cause = "block_error")

\* C11: a record is produced for a transaction only if the transaction passed
\* the candidate heuristic and the receipt fetched for it carries a contract
\* address; a candidate whose receipt has no contract address, or whose
\* receipt is unavailable (None), produces no record.
RecordedHashes(b) == {bresult[b][i].tx_hash : i \in 1..Len(bresult[b])}
C11_OnlyConfirmedRecorded ==
    \A b \in 1..MaxBatches :
        /\ \A i \in 1..Len(bresult[b]) :
              LET r == bresult[b][i] IN
              \E j \in 1..Len(Transactions) :
                  LET tx == Transactions[j] IN
                  /\ tx.hash = r.tx_hash
                  /\ IsPotentialContractCreation(tx)
                  /\ rres[tx.hash] # NoneReceipt
                  /\ rres[tx.hash].contractAddress # 0
                  /\ r.contract_address = rres[tx.hash].contractAddress
        /\ bpc[b] = "done" =>
              \A h \in Hashes :
                  (rres[h] = NoneReceipt \/ rres[h].contractAddress = 0)
                      => h \notin RecordedHashes(b)

\* Every batch is done: one candidate's receipt came without a contract
\* address and gave no record, another candidate's receipt gave one.
C11_Witness ==
    /\ \A b \in 1..Len(Batches) : bpc[b] = "done"
    /\ \E h \in CandidateHashes :
          /\ rp[h] = "done" /\ rres[h] # NoneReceipt
          /\ rres[h].contractAddress = 0
          /\ \A b \in 1..MaxBatches : h \notin RecordedHashes(b)
    /\ \E b \in 1..MaxBatches : bresult[b] # <<>>

\* C12: is_potential_contract_creation returns true for every transaction
\* whose recipient address is absent, whatever its input payload.
C12_AbsentRecipientIsCandidate ==
    (det_out # "none" /\ det_tx.to = "none") => det_out = "True"

\* The function returned true for a transaction without recipient and with
\* an empty payload.
C12_Witness ==
    /\ det_out = "True"
    /\ det_tx.to = "none"
    /\ det_tx.input.text = <<>>

\* C13: receipts are fetched only for transactions that pass the candidate
\* heuristic.  process_block on a block without a candidate (a block without
\* transactions among them) returns 0, sends no receipt request and makes no
\* store call; in any block the get_receipt calls started are one per
\* candidate.
HeuristicHashes ==
    {Transactions[j].hash :
        j \in {i \in 1..Len(Transactions) : IsPotentialContractCreation(Transactions[i])}}
StartedReceipts == {h \in Hashes : rp[h] # "none"}
C13_ReceiptsOnlyForCandidates ==
    /\ StartedReceipts \subseteq HeuristicHashes
    /\ \A h \in Hashes : attempts[h] > 0 => h \in HeuristicHashes
    /\ mpc = "pb_returned" =>
          /\ StartedReceipts = HeuristicHashes
          /\ HeuristicHashes = {} =>
                /\ pb_result = 0
                /\ store_log = <<>>
                /\ \A h \in Hashes : attempts[h] = 0

\* process_block returned for a block that holds candidates and other
\* transactions: a receipt was asked for each candidate and for no other.
C13_Witness ==
    /\ mpc = "pb_returned"
    /\ HeuristicHashes # {}
    /\ Cardinality(HeuristicHashes) < Len(Transactions)
    /\ \A h \in HeuristicHashes : attempts[h] > 0
    /\ \E h \in Hashes : h \notin HeuristicHashes /\ attempts[h] = 0

\* C14: within one block the batches may complete in any order, but the
\* store call of the block is issued only after every batch of the block has
\* completed, there is one such call, and it carries the records of all the
\* batches.
BatchRecords == UNION {{bresult[b][i] : i \in 1..Len(bresult[b])} : b \in 1..MaxBatches}
C14_StoreAfterAllBatches ==
    /\ [](Len(store_log) <= 1)
    /\ [][store_log' # store_log =>
            /\ \A b \in 1..Len(Batches) : bpc[b] = "done"
            /\ \A h \in Hashes : rp[h] \in {"none", "done"}
            /\ Len(store_log') = Len(store_log) + 1
            /\ LET sent == store_log'[Len(store_log')] IN
               /\ {sent[i] : i \in 1..Len(sent)} = BatchRecords
               /\ Len(sent) = Cardinality(BatchRecords)]_vars

\* The one store call of a block carried the records of several batches.
C14_Witness ==
    /\ mpc = "pb_returned"
    /\ Len(store_log) = 1
    /\ Cardinality({b \in 1..MaxBatches : bresult[b] # <<>>}) >= 2
    /\ Len(store_log[1]) >= 2

\* C15: when the bulk store of a block's records answers with a
\* duplicate-key conflict, or fails in any other way, process_block does not
\* raise and returns 0 for the block, the session does not end because of it,
\* and main goes on with the next height.
C15_StoreFailureContained ==
    /\ [][(store_log' # store_log /\ store_result' # "stored") =>
            /\ mpc' = "pb_returned"
            /\ pb_result' = 0
            /\ exit_cause' = exit_cause]_vars
    /\ [][(mpc = "pb_returned" /\ mpc' # mpc) =>
            /\ mpc' = "for"
            /\ block_number' = block_number + 1
            /\ total_contracts' = total_contracts + pb_result]_vars

\* A later block is being processed after the store of an earlier block
\* answered with a duplicate-key conflict.
C15_Witness ==
    /\ store_result = "raise_duplicate"
    /\ mpc = "pb_gather"
    /\ block_number > current_block
    /\ exit_cause = "none"

\* C16: process_block returns the number of records stored for the block:
\* when the store call succeeds, the number of confirmed contract creations
\* among the block's transactions, each counted once (1 for a block whose
\* single transaction has no recipient and whose receipt has a contract
\* address); otherwise 0.
ConfirmedCreations ==
    {h \in HeuristicHashes : rres[h] # NoneReceipt /\ rres[h].contractAddress # 0}
C16_ReturnsStoredCount ==
    mpc = "pb_returned" =>
        pb_result = IF store_log # <<>> /\ store_result = "stored"
                    THEN Cardinality(ConfirmedCreations)
                    ELSE 0

\* The block's single transaction has no recipient, its receipt has a
\* contract address, the store succeeded: process_block returned 1.
C16_Witness ==
    /\ mpc = "pb_returned"
    /\ Len(Transactions) = 1
    /\ Transactions[1].to = "none"
    /\ rres[1].contractAddress # 0
    /\ store_result = "stored"
    /\ pb_result = 1

\* C17: a session that has entered Running reaches Terminated only after the
\* final report has been written and the handlers flushed, whether shutdown
\* came from a signal, from the session timer or from an exception.  (The
\* metrics signal_handler logs before it flushes are counted as a report.)
SessionEnded == ~Alive
C17_ReportBeforeTerminated ==
    (SessionEnded /\ tpc # "none") =>
        \/ \E i \in 1..Len(report) : report[i] = "final"
        \/ exit_cause = "signal"

\* C18: when shutdown is requested, by signal or by timer, while a block is
\* processed, the batches already dispatched run to completion and the
\* block's aggregation and store take place before the process exits.
C18_BatchesDrained ==
    SessionEnded =>
        /\ \A b \in 1..MaxBatches : bpc[b] \in {"none", "done"}
        /\ mpc # "pb_gather"
        /\ \A h \in Hashes : rp[h] \in {"none", "done"}

\* C19: in continuous mode the loop suspends before polling again only when
\* the head the poll found has not advanced past the last processed height;
\* whenever the poll finds the head above that height, the heights after it
\* up to the head are processed before the next poll.  (Stated for a session
\* that has processed a block: experiment_end_block is that height.)
C19_ProcessesWhenHeadAdvanced ==
    (mpc = "idle_sleep" /\ experiment_end_block # 0) =>
        new_latest_block <= experiment_end_block

\* C20: in continuous mode, for any sequence of chain heads the node returns,
\* the heights passed to process_block form a non-decreasing sequence and
\* current_block never decreases.
C20_CursorMonotonic ==
    /\ [][current_block' >= current_block]_vars
    /\ [][(mpc' = "call_pb" /\ mpc # "call_pb") =>
            /\ block_number' >= experiment_end_block
            /\ block_number' >= current_block']_vars
    /\ [][(mpc = "call_pb" /\ mpc' # "call_pb") => pnum'[Main] = block_number]_vars

\* Blocks were processed and the cursor stands after the last of them; the
\* node then answered a poll with a head below the processed heights, and the
\* loop sleeps with the cursor where it was.
C20_Witness ==
    /\ mpc = "idle_sleep"
    /\ experiment_end_block > experiment_start_block
    /\ current_block = experiment_end_block + 1
    /\ new_latest_block < experiment_end_block

\* C21: for a transaction that has a recipient, is_potential_contract_creation
\* returns true exactly when the payload is not empty and begins with one of
\* the constructor prefixes 60806040 and 60606040, for a payload given as a
\* byte sequence and for one given as a 0x-prefixed hex string; in every other
\* case it returns false.
ConstructorPrefixes ==
    { <<"6", "0", "8", "0", "6", "0", "4", "0">>,
      <<"6", "0", "6", "0", "6", "0", "4", "0">> }
PayloadDigits(d) ==
    IF ~d.isbytes /\ StartsWith(d.text, HexPrefix)
    THEN SubSeq(d.text, 3, Len(d.text))
    ELSE d.text
C21_PrefixDecides ==
    (/\ det_out # "none"
     /\ det_tx.to # "none"
     /\ det_tx.input.isbytes \/ StartsWith(det_tx.input.text, HexPrefix))
    => (det_out = "True" <=>
            /\ PayloadDigits(det_tx.input) # <<>>
            /\ \E p \in ConstructorPrefixes : StartsWith(PayloadDigits(det_tx.input), p))

\* C22: once the shutdown event is set, no further process_block call is
\* started: the event is tested before every turn of the for loop (and of the
\* while loop, before the poll), so at most the block in progress when the
\* event was set is still completed.
C22_NoBlockAfterShutdown ==
    /\ [](shutdown_event => mpc # "call_pb")
    /\ [][(mpc' = "pb_fetch" /\ mpc # "pb_fetch") => ~shutdown_event]_vars
    /\ [][(shutdown_event /\ mpc = "pb_returned") =>
            mpc' \in {"pb_returned", "for", "terminated", "crashed"}]_vars
    /\ [][(shutdown_event /\ mpc = "for") =>
            mpc' \in {"for", "loop", "terminated", "crashed"}]_vars
    /\ [][(shutdown_event /\ mpc = "loop") =>
            mpc' \in {"loop", "terminated", "crashed"}]_vars

\* The timer fired while a block of a range was processed: that block was
\* completed, the for loop was left with heights of the range unprocessed.
C22_Witness ==
    /\ shutdown_event
    /\ mpc = "loop"
    /\ experiment_end_block # 0
    /\ experiment_end_block < new_latest_block
    /\ current_block = new_latest_block + 1

\* C23: when the session timer expires in continuous mode, the session
\* eventually terminates, under fair scheduling and with every RPC and store
\* call answering, also while the chain head is ahead of the processed
\* heights.  (Stated for an expiry that comes while the clock of the model
\* runs: before the report file holds MaxProgress entries.)
C23_TimerTerminates ==
    (shutdown_event /\ Len(report) < MaxProgress) ~> SessionEnded

\* The session ended by the timer while the chain head was ahead of the last
\* processed height.
C23_Witness ==
    /\ mpc = "terminated"
    /\ exit_cause = "shutdown"
    /\ tpc = "done"
    /\ experiment_end_block # 0
    /\ experiment_end_block < new_latest_block
    /\ head > experiment_end_block

\* C24: every call of track_request eventually returns: admission may be
\* delayed but does not fail and does not block forever, for any finite
\* number of concurrent callers (from some point on no new call is started),
\* given that time advances and that scheduling is fair.
C24_AdmissionReturns ==
    (<>[][\A c \in Callers : cpc'[c] = "track" => cpc[c] = "track"]_vars)
        => \A c \in Callers : (cpc[c] = "track") ~> (cpc[c] = "idle")

\* A caller has returned from track_request while the window is full and
\* another caller sleeps in its call.
C24_Witness ==
    /\ Len(Prune(request_times, now)) = RPC_LIMIT
    /\ \E c \in Callers : cpc[c] = "idle" /\ wake[c] = 0
    /\ \E c \in Callers : cpc[c] = "track" /\ wake[c] > now
    /\ \E i \in 1..Len(request_times) : request_times[i] < now

\* C25: at report time the RPC-requests counter equals the number of RPC
\* requests issued during the session and the RPC-errors counter the number
\* of those that failed.  (The state records some of the requests issued, not
\* all: the head query of the start of main, and the head queries of
\* cleanup_and_shutdown and signal_handler; it records a failed request when
\* the session exits because of one.  The counters are compared with these
\* lower bounds of the numbers the claim equates them with.)
RequestsIssuedAtLeast == 1 + rpc_unadmitted
RequestsFailedAtLeast == IF exit_cause \in {"head_error", "block_error"} THEN 1 ELSE 0
C25_CountersMatchRequests ==
    (\E i \in 1..Len(report) : report[i] = "final") =>
        /\ experiment_rpc_requests >= RequestsIssuedAtLeast
        /\ experiment_rpc_errors >= RequestsFailedAtLeast

\* C26: the blocks-processed figure of the final report equals the number of
\* heights for which process_block completed during the session, for every
\* start height and every number of processed blocks.
C26_BlocksProcessedFigure ==
    (\E i \in 1..Len(report) : report[i] = "final") =>
        FinalBlocksProcessed = Len(processed)

\* C29: in continuous mode, at every point of the session the heights passed
\* to process_block are exactly the contiguous range from the start height to
\* the last processed height, each passed once, for any sequence of chain
\* heads the node answers with.
PassedHeights ==
    processed \o (IF mpc \in {"pb_fetch", "pb_gather", "pb_returned", "pb_raised"}
                  THEN <<block_number>> ELSE <<>>)
C29_HeightsContiguous ==
    /\ PassedHeights =
          [i \in 1..Len(PassedHeights) |-> experiment_start_block + i - 1]
    /\ processed # <<>> => processed[Len(processed)] = experiment_end_block
    /\ processed = <<>> => experiment_end_block = 0

\* A second range of blocks is being processed: the first range ended below
\* the cursor, and the second block of the second range is in progress.
C29_Witness ==
    /\ mpc \in {"pb_fetch", "pb_gather"}
    /\ current_block > experiment_start_block + 1
    /\ block_number > current_block
    /\ Len(processed) >= 3

\* C27: every record assembled in a batch combines a transaction with the
\* receipt fetched for that transaction's hash, in whatever order the
\* concurrent receipt fetches and their retries complete and however the
\* fetches are split into sub-batches of RPC_BATCH_SIZE.
C27_ReceiptOfSameTransaction ==
    \A b \in 1..MaxBatches :
        /\ \A i \in 1..Len(breceipts[b]) :
              breceipts[b][i] # NoneReceipt =>
                  breceipts[b][i].transactionHash = Candidates(Batches[b])[i].hash
        /\ \A i \in 1..Len(bresult[b]) :
              LET r == bresult[b][i] IN
              /\ rres[r.tx_hash].transactionHash = r.tx_hash
              /\ r.contract_address = rres[r.tx_hash].contractAddress
              /\ r.contract_address = r.tx_hash

\* A batch of several candidates, fetched in more than one sub-batch, has
\* assembled several records; one of the receipts arrived on a retry.
C27_Witness ==
    \E b \in 1..MaxBatches :
        /\ bpc[b] = "done"
        /\ Len(SubBatches(b)) >= 2
        /\ Len(bresult[b]) >= 2
        /\ \E i \in 1..Len(bresult[b]) : retries[bresult[b][i].tx_hash] >= 1

\* C28: in any session the final report is written to the report file at most
\* once, for every combination of shutdown triggers: the timer, an exception
\* in the scan loop, or both in the same session.
C28_FinalReportOnce ==
    Cardinality({i \in 1..Len(report) : report[i] = "final"}) <= 1

====
